---- MODULE Spec2Model ----
(***************************************************************************)
(* Reddit compatibility analyzer: the provider registry                    *)
(* (llm_providers.py), the corpus fetch (reddit_scraper.py) and the        *)
(* sampling / prompt / driver code (app_minimal.py).                       *)
(*                                                                         *)
(* Bodies and provider names are sequences of one-character strings, so    *)
(* that len(), slicing, strip() and lower() are computed as Python         *)
(* computes them; fixed messages are kept as whole strings.  Python's None *)
(* is the string "None".  Three specifications share the variables:        *)
(* SpecProvider (llm_providers.py called directly), SpecSampler            *)
(* (generate_analysis called directly) and SpecMain (one request through   *)
(* main(), with an empty fetch cache and praw.Reddit(...) constructing).   *)
(***************************************************************************)
EXTENDS Integers, Sequences, FiniteSets, TLC

VARIABLES
    \* ---- process environment (llm_providers.py reads it) ----
    environ,        \* os.environ: variable name -> "None" | "" | a key
    installed,      \* the vendor client libraries that can be imported
    \* ---- arguments of the call under study ----
    provider_name,  \* the logical provider name, as text
    posts1,         \* corpus of account 1: sequence of bodies
    posts2,         \* corpus of account 2
    num_samples,    \* generate_analysis(num_samples=...)
    user1,          \* account names
    user2,
    \* ---- llm_providers.py objects and call results ----
    provider,       \* the provider instance get_provider returned (or NoProvider)
    result,         \* outcome of the last call: [exc, value]
    vendor_calls,   \* number of requests that reached a vendor backend
    gen_calls,      \* number of generate() calls made on the provider
    \* ---- generate_analysis locals, kept for inspection ----
    sampled,        \* TRUE once lines 135-142 ran in the current call
    rand_idx,       \* positions of all_pairs drawn by random.sample
    sample_pairs,   \* random_pairs + longest_pairs
    pairs_text,     \* the rendered "Pair i" blocks
    runs,           \* number of generate_analysis calls made
    prev_run,   \* longest-pairs portion of the previous call
    \* ---- main() ----
    pc,             \* position in main()
    secrets,        \* st.secrets: REDDIT_CLIENT_ID / REDDIT_CLIENT_SECRET
    upstream,       \* the Reddit API's answer per account
    posts_limit,    \* slider "Posts per user"
    fetched,        \* result of fetch_user_posts per account: [exc, rows]
    shown,          \* what main() rendered: sequence of [kind, text, detail]
    report,         \* report displayed ("None" if none)
    trace           \* stages main() started, in order

vars == <<environ, installed, provider_name, posts1, posts2, num_samples,
          user1, user2,
          provider, result, vendor_calls, gen_calls, sampled, rand_idx,
          sample_pairs, pairs_text, runs, prev_run, pc, secrets, upstream,
          posts_limit, fetched, shown, report, trace>>

envVars == <<environ, installed>>
argVars == <<provider_name, posts1, posts2, num_samples, user1, user2>>
provVars == <<provider, result, vendor_calls, gen_calls>>
sampVars == <<sampled, rand_idx, sample_pairs, pairs_text, runs, prev_run>>
mainVars == <<pc, secrets, upstream, posts_limit, fetched, shown, report, trace>>

-----------------------------------------------------------------------------
(* Generic helpers *)

Range(s) == {s[i] : i \in DOMAIN s}

Min(a, b) == IF a < b THEN a ELSE b

\* s[:n] for n >= 0
Take(s, n) == SubSeq(s, 1, Min(n, Len(s)))

\* All sequences over S of length 0..n
SeqsUpTo(S, n) == UNION {[1..k -> S] : k \in 0..n}

\* n copies of the character c
Rep(c, n) == [i \in 1..n |-> c]

-----------------------------------------------------------------------------
(* Text *)

UpperChars == <<"A", "C", "E", "G", "H", "I", "O", "Q", "R">>
LowerChars == <<"a", "c", "e", "g", "h", "i", "o", "q", "r">>

\* str.lower() on one character (ASCII letters of the names in use)
LowerChar(c) ==
    IF \E i \in DOMAIN UpperChars : UpperChars[i] = c
    THEN LowerChars[CHOOSE i \in DOMAIN UpperChars : UpperChars[i] = c]
    ELSE c

\* str.lower()
Lower(s) == [i \in DOMAIN s |-> LowerChar(s[i])]


-----------------------------------------------------------------------------
(* llm_providers.py *)

NoExc == [type |-> "None", msg |-> <<>>]

Exc(type, msg) == [type |-> type, msg |-> msg]

NoResult == [exc |-> NoExc, value |-> "None"]

NoProvider == [cls |-> "None", api_key |-> "None", model |-> "None", client |-> "None"]

\* The keys and values of the dict `providers` in get_provider
providers ==
    << <<<<"g", "r", "o", "q">>, "GroqProvider">>,
       <<<<"o", "p", "e", "n", "a", "i">>, "OpenAIProvider">>,
       <<<<"a", "n", "t", "h", "r", "o", "p", "i", "c">>, "AnthropicProvider">>,
       <<<<"g", "e", "m", "i", "n", "i">>, "GeminiProvider">>,
       <<<<"c", "o", "h", "e", "r", "e">>, "CohereProvider">> >>

ProviderClasses == {providers[i][2] : i \in DOMAIN providers}

RegisteredNames == {providers[i][1] : i \in DOMAIN providers}

\* A lookup that falls back to the first backend for an unknown key
ProviderLookupWithDefault(key) ==
    IF \E i \in DOMAIN providers : providers[i][1] = key
    THEN providers[CHOOSE i \in DOMAIN providers : providers[i][1] = key][2]
    ELSE "GroqProvider"

\* providers.get(key): the class registered under key, or None
ProviderLookup(key) ==
    IF \E i \in DOMAIN providers : providers[i][1] = key
    THEN providers[CHOOSE i \in DOMAIN providers : providers[i][1] = key][2]
    ELSE "None"

\* os.getenv(...) argument of each class's __init__
EnvVarOf(cls) ==
    CASE cls = "GroqProvider" -> "GROQ_API_KEY"
      [] cls = "OpenAIProvider" -> "OPENAI_API_KEY"
      [] cls = "AnthropicProvider" -> "ANTHROPIC_API_KEY"
      [] cls = "GeminiProvider" -> "GOOGLE_API_KEY"
      [] cls = "CohereProvider" -> "COHERE_API_KEY"

\* the module each class's __init__ imports
LibOf(cls) ==
    CASE cls = "GroqProvider" -> "groq"
      [] cls = "OpenAIProvider" -> "openai"
      [] cls = "AnthropicProvider" -> "anthropic"
      [] cls = "GeminiProvider" -> "google.generativeai"
      [] cls = "CohereProvider" -> "cohere"

\* self.model of each class
ModelOf(cls) ==
    CASE cls = "GroqProvider" -> "llama-3.3-70b-versatile"
      [] cls = "OpenAIProvider" -> "gpt-3.5-turbo"
      [] cls = "AnthropicProvider" -> "claude-3-haiku-20240307"
      [] cls = "GeminiProvider" -> "gemini-1.5-flash"
      [] cls = "CohereProvider" -> "command"

\* the text of the ImportError each __init__ raises
InstallMsg(cls) ==
    CASE cls = "GroqProvider" -> <<"Install groq: pip install groq">>
      [] cls = "OpenAIProvider" -> <<"Install openai: pip install openai">>
      [] cls = "AnthropicProvider" -> <<"Install anthropic: pip install anthropic">>
      [] cls = "GeminiProvider" -> <<"Install: pip install google-generativeai">>
      [] cls = "CohereProvider" -> <<"Install: pip install cohere">>

EnvVarNames == {EnvVarOf(c) : c \in ProviderClasses}

Libs == {LibOf(c) : c \in ProviderClasses}

\* Python truthiness of an os.getenv result: None and "" are falsy
Truthy(v) == v # "None" /\ v # ""

\* __init__ that refuses to build an unconfigured provider
ConstructEager(cls, env, libs) ==
    LET api_key == env[EnvVarOf(cls)]
        obj == [cls |-> cls, api_key |-> api_key, model |-> ModelOf(cls), client |-> "None"]
    IN  IF Truthy(api_key)
        THEN IF LibOf(cls) \in libs
             THEN [exc |-> NoExc, obj |-> [obj EXCEPT !.client = LibOf(cls)]]
             ELSE [exc |-> Exc("ImportError", InstallMsg(cls)), obj |-> NoProvider]
        ELSE [exc |-> Exc("ValueError", <<EnvVarOf(cls), " not set">>), obj |-> NoProvider]

\* __init__ that swallows the ImportError and leaves the client unset
ConstructLazy(cls, env, libs) ==
    LET api_key == env[EnvVarOf(cls)]
        obj == [cls |-> cls, api_key |-> api_key, model |-> ModelOf(cls), client |-> "None"]
    IN  IF Truthy(api_key) /\ LibOf(cls) \in libs
        THEN [exc |-> NoExc, obj |-> [obj EXCEPT !.client = LibOf(cls)]]
        ELSE [exc |-> NoExc, obj |-> obj]

\* <Class>.__init__: read the credential; with a credential, import the vendor
\* library and build the client, or raise ImportError
Construct(cls, env, libs) ==
    LET api_key == env[EnvVarOf(cls)]
        obj == [cls |-> cls, api_key |-> api_key, model |-> ModelOf(cls), client |-> "None"]
    IN  IF Truthy(api_key)
        THEN IF LibOf(cls) \in libs
             THEN [exc |-> NoExc, obj |-> [obj EXCEPT !.client = LibOf(cls)]]
             ELSE [exc |-> Exc("ImportError", InstallMsg(cls)), obj |-> NoProvider]
        ELSE [exc |-> NoExc, obj |-> obj]

\* LLMProvider.get_provider(name)
GetProvider(name, env, libs) ==
    LET provider_class == ProviderLookup(Lower(name))
    IN  IF provider_class = "None"
        THEN [exc |-> Exc("ValueError", <<"Unknown provider: ">> \o name), obj |-> NoProvider]
        ELSE Construct(provider_class, env, libs)

\* What the vendor backend may answer to one request: a completion, or an error
VendorOutcomes ==
    { [exc |-> NoExc, value |-> "report text"],
      [exc |-> Exc("APIError", <<"429 rate limit exceeded">>), value |-> "None"] }

\* <Class>.generate(prompt): without a client raise ValueError, else send the
\* request; `outcome` is the vendor's answer.  reached = the request was sent.
Generate(p, outcome) ==
    IF p.client = "None"
    THEN [exc |-> Exc("ValueError", <<EnvVarOf(p.cls), " not set">>), value |-> "None",
          reached |-> FALSE]
    ELSE [exc |-> outcome.exc, value |-> outcome.value, reached |-> TRUE]


-----------------------------------------------------------------------------
(* app_minimal.py: generate_analysis *)

\* the slice bound and ellipsis threshold of the prompt lines
TruncateAt == 300

\* [(p1, p2) for p1 in posts1 for p2 in posts2] built with the sides exchanged
AllPairsSwapped(p1s, p2s) ==
    [n \in 1..(Len(p1s) * Len(p2s)) |->
        <<p2s[((n - 1) % Len(p2s)) + 1], p1s[((n - 1) \div Len(p2s)) + 1]>>]

\* all_pairs = [(p1, p2) for p1 in posts1 for p2 in posts2]
AllPairs(p1s, p2s) ==
    [n \in 1..(Len(p1s) * Len(p2s)) |->
        <<p1s[((n - 1) \div Len(p2s)) + 1], p2s[((n - 1) % Len(p2s)) + 1]>>]

\* key=lambda x: len(x[0]) + len(x[1])
CombinedLen(pair) == Len(pair[1]) + Len(pair[2])

\* an insertion that puts x ahead of the entries of equal key (ties reversed)
InsertDescTiesReversed(sorted, x) ==
    LET keep == {i \in DOMAIN sorted : CombinedLen(sorted[i]) > CombinedLen(x)}
        n == Cardinality(keep)
    IN  SubSeq(sorted, 1, n) \o <<x>> \o SubSeq(sorted, n + 1, Len(sorted))

\* x placed after every element whose key is at least its own
InsertDesc(sorted, x) ==
    LET keep == {i \in DOMAIN sorted : CombinedLen(sorted[i]) >= CombinedLen(x)}
        n == Cardinality(keep)
    IN  SubSeq(sorted, 1, n) \o <<x>> \o SubSeq(sorted, n + 1, Len(sorted))

RECURSIVE SortedPairs(_)
\* sorted(all_pairs, key=..., reverse=True): stable, descending
SortedPairs(pairs) ==
    IF pairs = <<>> THEN <<>>
    ELSE InsertDesc(SortedPairs(SubSeq(pairs, 1, Len(pairs) - 1)), pairs[Len(pairs)])

\* a sample size that is not clamped to the population
SampleSizeUnclamped(n, pairs) == n \div 2

\* min(num_samples // 2, len(all_pairs))
SampleSize(n, pairs) == Min(n \div 2, Len(pairs))

\* random.sample(population, k), as positions: every sequence of k distinct
\* positions of a population of n is a possible draw
Draws(n, k) == {f \in [1..k -> 1..n] : \A i, j \in 1..k : i # j => f[i] # f[j]}

\* a longest half that takes the odd sample as well
LongestPairsRoundUp(pairs, n) == Take(SortedPairs(pairs), n - (n \div 2))

\* longest_pairs = sorted_pairs[:num_samples // 2]
LongestPairs(pairs, n) == Take(SortedPairs(pairs), n \div 2)

\* random_pairs: the pairs at the drawn positions
RandomPairs(pairs, idx) == [i \in DOMAIN idx |-> pairs[idx[i]]]

\* a concatenation that drops from the longest half the pairs already drawn
SamplePairsDedup(random_pairs, longest_pairs) ==
    random_pairs \o SelectSeq(longest_pairs, LAMBDA x : x \notin Range(random_pairs))

\* sample_pairs = random_pairs + longest_pairs
SamplePairs(random_pairs, longest_pairs) == random_pairs \o longest_pairs

\* a truncation that cuts at 300 characters without the ellipsis marker
TruncatedNoMarker(p) == Take(p, TruncateAt)

\* f"{p[:300]}{'...' if len(p) > 300 else ''}"
Truncated(p) ==
    Take(p, TruncateAt) \o (IF Len(p) > TruncateAt THEN <<".", ".", ".">> ELSE <<>>)

\* pairs_text: one block per entry of sample_pairs[:num_samples], numbered from 1
PairsText(samples, n, u1, u2) ==
    LET shown_pairs == Take(samples, n)
    IN  [i \in DOMAIN shown_pairs |->
            [index |-> i,
             label1 |-> u1, side1 |-> Truncated(shown_pairs[i][1]),
             label2 |-> u2, side2 |-> Truncated(shown_pairs[i][2])]]

\* A call that stopped before sampling, with exception e
EarlyExit(e) ==
    [exc |-> e, value |-> "None", provider |-> NoProvider, sampled |-> FALSE,
     rand_idx |-> <<>>, sample_pairs |-> <<>>, pairs_text |-> <<>>, reached |-> FALSE]

\* generate_analysis(provider_name, posts1, posts2, user1, user2, num_samples):
\* every outcome the call can have, over the random draw and the vendor's answer
GenerateAnalysis(name, p1s, p2s, u1, u2, n, env, libs) ==
    LET gp == GetProvider(name, env, libs)
        all_pairs == AllPairs(p1s, p2s)
        k == SampleSize(n, all_pairs)
        longest_pairs == LongestPairs(all_pairs, n)
    IN  IF gp.exc # NoExc THEN {EarlyExit(gp.exc)}
        ELSE IF k > Len(all_pairs)
        THEN {EarlyExit(Exc("ValueError", <<"Sample larger than population or is negative">>))}
        ELSE { LET samples == SamplePairs(RandomPairs(all_pairs, idx), longest_pairs)
                   g == Generate(gp.obj, o)
               IN  [exc |-> g.exc, value |-> g.value, provider |-> gp.obj,
                    sampled |-> TRUE, rand_idx |-> idx, sample_pairs |-> samples,
                    pairs_text |-> PairsText(samples, n, u1, u2), reached |-> g.reached]
               : idx \in Draws(Len(all_pairs), k), o \in VendorOutcomes }

\* the entries of a sample set after its random portion
LongestPortion(samples, idx) == SubSeq(samples, Len(idx) + 1, Len(samples))


-----------------------------------------------------------------------------
(* reddit_scraper.py: RedditScraper.fetch_user_posts *)

Whitespace == {" ", "\n", "\t"}

RECURSIVE LStrip(_)
LStrip(s) == IF s # <<>> /\ s[1] \in Whitespace THEN LStrip(Tail(s)) ELSE s

RECURSIVE RStrip(_)
RStrip(s) ==
    IF s # <<>> /\ s[Len(s)] \in Whitespace THEN RStrip(SubSeq(s, 1, Len(s) - 1)) ELSE s

\* str.strip()
Strip(s) == RStrip(LStrip(s))

\* the length a text must exceed to be kept
MinTextLen == 10

\* if text and len(text) > 10
Qualifies(text) == text # <<>> /\ Len(text) > MinTextLen

\* f"{submission.title}. {submission.selftext}".strip()
SubmissionText(sub) == Strip(sub.title \o <<".", " ">> \o sub.selftext)

\* comment.body.strip()
CommentText(com) == Strip(com.body)

\* the rows appended to posts_data by the two loops, in order
PostsData(acct, limit) ==
    LET subs == Take(acct.submissions, limit \div 2)
        coms == Take(acct.comments, limit \div 2)
        subRows == [i \in DOMAIN subs |->
                       [text |-> SubmissionText(subs[i]), type |-> "submission",
                        score |-> subs[i].score]]
        comRows == [i \in DOMAIN coms |->
                       [text |-> CommentText(coms[i]), type |-> "comment",
                        score |-> coms[i].score]]
    IN  SelectSeq(subRows, LAMBDA r : Qualifies(r.text))
            \o SelectSeq(comRows, LAMBDA r : Qualifies(r.text))

\* df.sort_values('score', ascending=False): the default sort is not stable,
\* so every ordering of the rows with non-increasing score is a possible result
SortedByScore(rows) ==
    { [i \in DOMAIN rows |-> rows[f[i]]] : f \in
        { g \in Draws(Len(rows), Len(rows)) :
            \A i \in 1..(Len(rows) - 1) : rows[g[i]].score >= rows[g[i + 1]].score } }

\* pd.DataFrame(rows): a frame built from no rows has no columns
DataFrame(rows) == [has_text |-> rows # <<>>, rows |-> rows]

NoFetch == [done |-> FALSE, exc |-> NoExc, df |-> DataFrame(<<>>)]

CredentialsMsg ==
    <<"Reddit API credentials required! ",
      "Add REDDIT_CLIENT_ID and REDDIT_CLIENT_SECRET to secrets.toml">>

\* RedditScraper(client_id, client_secret).fetch_user_posts(username, limit):
\* every outcome, given the upstream state `acct` of the account
FetchUserPosts(client_id, client_secret, acct, limit) ==
    IF ~Truthy(client_id) \/ ~Truthy(client_secret)
    THEN {[done |-> TRUE, exc |-> Exc("ValueError", CredentialsMsg), df |-> DataFrame(<<>>)]}
    ELSE IF acct.status # "ok"
    THEN \* except Exception as e: ... return pd.DataFrame()
         {[done |-> TRUE, exc |-> NoExc, df |-> DataFrame(<<>>)]}
    ELSE {[done |-> TRUE, exc |-> NoExc, df |-> DataFrame(rows)] :
              rows \in SortedByScore(PostsData(acct, limit))}

-----------------------------------------------------------------------------
(* app_minimal.py: main *)

\* provider = 'groq'
MainProvider == <<"g", "r", "o", "q">>

\* values of the slider "Posts per user" (minimum, default, maximum)
PostsLimitChoices == {20, 200}

\* values of the slider "Post pairs to analyze" (minimum, default)
SamplePairsChoices == {10, 15}

\* main() going on after a failed stage instead of returning
AfterStageNoReturn(failed, next) == next

\* where main() goes after a stage: `return` in the except branch, else on
AfterStage(failed, next) == IF failed THEN "returned" ELSE next

\* st.error(f"Analysis failed. Please try again.")
AnalysisError(e) ==
    [kind |-> "error", text |-> <<"Analysis failed. Please try again.">>, detail |-> <<>>]

\* st.error(f"Failed to fetch u/{user}: {str(e)}")
FetchError(user, e) ==
    [kind |-> "error", text |-> <<"Failed to fetch u/", user>>, detail |-> e.msg]

\* the try block of a fetch step: the fetch, then df['text'].tolist(), which
\* raises KeyError on a frame without columns
FetchStep(out) ==
    IF out.exc # NoExc THEN [exc |-> out.exc, posts |-> <<>>]
    ELSE IF ~out.df.has_text THEN [exc |-> Exc("KeyError", <<"'text'">>), posts |-> <<>>]
    ELSE [exc |-> NoExc, posts |-> [i \in DOMAIN out.df.rows |-> out.df.rows[i].text]]


-----------------------------------------------------------------------------
(* Bounds and input sets *)

\* longest corpus handed to generate_analysis directly
MaxPosts == 2

\* largest num_samples handed to generate_analysis directly
MaxSamples == 4

\* calls of generate_analysis on the same arguments
MaxRuns == 2

\* generate() calls on one provider instance
MaxGenerateCalls == 2

\* items (submissions plus comments) an upstream account holds
MaxUpstreamItems == 1

\* bodies the corpora are built from: lengths 1 and 2
BodyPool == { <<"a">>, <<"b", "b">> }

\* the 3 x 4 scenario: "alice" has 3 items, "bob" has 4
AlicePosts == << <<"a">>, <<"b", "b">>, <<"c", "c">> >>
BobPosts == << <<"b", "b">>, <<"d", "d", "d">>, <<"a">>, <<"e", "e", "e">> >>

\* bodies around the 300-character cut: 300 and 301 characters against 299 and 1
LongPosts1 == << Rep("p", 300), Rep("q", 301) >>
LongPosts2 == << Rep("r", 299), <<"a">> >>

\* values os.getenv can return: unset, set to the empty string, set to a key
EnvValues == {"None", "", "sk-key"}

\* provider names tried against the registry
ProviderNames ==
    { <<"g", "r", "o", "q">>, <<"G", "r", "o", "q">>, <<"G", "R", "O", "Q">>,
      <<"o", "p", "e", "n", "a", "i">>, <<"O", "p", "e", "n", "A", "I">>,
      <<"a", "n", "t", "h", "r", "o", "p", "i", "c">>,
      <<"g", "e", "m", "i", "n", "i">>,
      <<"C", "o", "h", "e", "r", "e">>,
      <<"g", "r", "o", "q", " ">>,
      <<"n", "o", "t", "-", "a", "-", "r", "e", "a", "l", "-",
        "p", "r", "o", "v", "i", "d", "e", "r">>,
      <<>> }

\* an environment in which only the main provider is configured
GroqOnlyEnv(v) == [e \in EnvVarNames |-> IF e = "GROQ_API_KEY" THEN v ELSE "None"]

\* upstream submissions: the texts have 10 and 12 characters
SubmissionPool ==
    { [title |-> Rep("s", 9), selftext |-> <<>>, score |-> 5],
      [title |-> Rep("t", 8), selftext |-> <<"x", "y">>, score |-> 7] }

\* upstream comments: 10 characters, 11 characters, 10 characters in whitespace
CommentPool ==
    { [body |-> Rep("k", 10), score |-> 7],
      [body |-> Rep("m", 11), score |-> 5],
      [body |-> <<" ">> \o Rep("n", 10) \o <<"\n">>, score |-> 9] }

\* what the Reddit API holds for one account
UpstreamAccounts ==
    { [status |-> "not_found", submissions |-> <<>>, comments |-> <<>>],
      [status |-> "unreachable", submissions |-> <<>>, comments |-> <<>>] }
    \cup
    { [status |-> "ok", submissions |-> ss, comments |-> cs] :
        ss \in SeqsUpTo(SubmissionPool, MaxUpstreamItems),
        cs \in SeqsUpTo(CommentPool, MaxUpstreamItems) }

UpstreamAccountsBounded ==
    {a \in UpstreamAccounts : Len(a.submissions) + Len(a.comments) <= MaxUpstreamItems}

NoUpstream == [status |-> "not_found", submissions |-> <<>>, comments |-> <<>>]

Users == {"alice", "bob"}

-----------------------------------------------------------------------------
(* Initial states *)

NoPrev == [valid |-> FALSE, longest |-> <<>>]

ProvIdle ==
    /\ provider = NoProvider
    /\ result = NoResult
    /\ vendor_calls = 0
    /\ gen_calls = 0

SampIdle ==
    /\ sampled = FALSE
    /\ rand_idx = <<>>
    /\ sample_pairs = <<>>
    /\ pairs_text = <<>>
    /\ runs = 0
    /\ prev_run = NoPrev

MainIdle ==
    /\ secrets = [client_id |-> "None", client_secret |-> "None"]
    /\ upstream = [u \in Users |-> NoUpstream]
    /\ posts_limit = 50
    /\ fetched = [i \in 1..2 |-> NoFetch]
    /\ shown = <<>>
    /\ report = "None"
    /\ trace = <<>>

\* llm_providers.py used directly: any name, any environment
InitProvider ==
    /\ environ \in [EnvVarNames -> EnvValues]
    /\ installed \in SUBSET Libs
    /\ provider_name \in ProviderNames
    /\ posts1 = <<>> /\ posts2 = <<>> /\ num_samples = 15
    /\ user1 = "alice" /\ user2 = "bob"
    /\ ProvIdle /\ SampIdle /\ MainIdle
    /\ pc = "resolve"

\* generate_analysis called directly with a configured provider
InitSampler ==
    /\ environ = GroqOnlyEnv("sk-key")
    /\ installed = {"groq"}
    /\ provider_name = MainProvider
    /\ \/ /\ posts1 \in SeqsUpTo(BodyPool, MaxPosts)
          /\ posts2 \in SeqsUpTo(BodyPool, MaxPosts)
          /\ num_samples \in 1..MaxSamples
       \/ /\ posts1 = AlicePosts
          /\ posts2 = BobPosts
          /\ num_samples = 4
       \/ /\ posts1 = <<>>
          /\ posts2 = << <<"x">> >>
          /\ num_samples = 10
       \/ /\ posts1 = LongPosts1
          /\ posts2 = LongPosts2
          /\ num_samples = 4
    /\ user1 = "alice" /\ user2 = "bob"
    /\ ProvIdle /\ SampIdle /\ MainIdle
    /\ pc = "call"

\* main() after a click on the analyze button
InitMain ==
    /\ environ \in {GroqOnlyEnv(v) : v \in EnvValues}
    /\ installed \in {{}, {"groq"}}
    /\ provider_name = MainProvider
    /\ posts1 = <<>> /\ posts2 = <<>>
    /\ num_samples \in SamplePairsChoices
    /\ ProvIdle /\ SampIdle
    /\ fetched = [i \in 1..2 |-> NoFetch]
    /\ shown = <<>>
    /\ report = "None"
    /\ trace = <<>>
    /\ pc = "clicked"
    /\ \/ /\ user1 = "alice" /\ user2 = "bob"
          /\ secrets \in [client_id : {"None", "id"}, client_secret : {"None", "secret"}]
          /\ upstream \in [Users -> UpstreamAccountsBounded]
          /\ posts_limit \in PostsLimitChoices
       \/ /\ \E us \in {<<"", "bob">>, <<"alice", "">>, <<"alice", "alice">>} :
                user1 = us[1] /\ user2 = us[2]
          /\ secrets = [client_id |-> "id", client_secret |-> "secret"]
          /\ upstream = [u \in Users |-> NoUpstream]
          /\ posts_limit = 50


-----------------------------------------------------------------------------
(* Actions: llm_providers.py used directly *)

\* p = LLMProvider.get_provider(provider_name)
CallGetProvider ==
    /\ pc = "resolve"
    /\ LET gp == GetProvider(provider_name, environ, installed)
       IN  /\ provider' = gp.obj
           /\ result' = [exc |-> gp.exc, value |-> "None"]
           /\ pc' = IF gp.exc = NoExc THEN "resolved" ELSE "failed"
    /\ UNCHANGED <<vendor_calls, gen_calls>>
    /\ UNCHANGED <<envVars, argVars, sampVars>>
    /\ UNCHANGED <<secrets, upstream, posts_limit, fetched, shown, report, trace>>

\* p.generate(prompt), on the instance get_provider returned
CallGenerate ==
    /\ pc = "resolved"
    /\ gen_calls < MaxGenerateCalls
    /\ \E o \in VendorOutcomes :
          LET g == Generate(provider, o)
          IN  /\ result' = [exc |-> g.exc, value |-> g.value]
              /\ vendor_calls' = vendor_calls + (IF g.reached THEN 1 ELSE 0)
    /\ gen_calls' = gen_calls + 1
    /\ UNCHANGED <<provider, pc>>
    /\ UNCHANGED <<envVars, argVars, sampVars>>
    /\ UNCHANGED <<secrets, upstream, posts_limit, fetched, shown, report, trace>>

NextProvider == CallGetProvider \/ CallGenerate

SpecProvider == InitProvider /\ [][NextProvider]_vars

-----------------------------------------------------------------------------
(* Actions: generate_analysis called directly *)

\* the state a generate_analysis call leaves behind, for one outcome `out`
AnalysisEffect(out) ==
    /\ provider' = out.provider
    /\ result' = [exc |-> out.exc, value |-> out.value]
    /\ vendor_calls' = vendor_calls + (IF out.reached THEN 1 ELSE 0)
    /\ gen_calls' = gen_calls + (IF out.sampled THEN 1 ELSE 0)
    /\ sampled' = out.sampled
    /\ rand_idx' = out.rand_idx
    /\ sample_pairs' = out.sample_pairs
    /\ pairs_text' = out.pairs_text
    /\ runs' = runs + 1
    /\ prev_run' = prev_run

\* generate_analysis(provider_name, posts1, posts2, user1, user2, num_samples)
CallGenerateAnalysis ==
    /\ pc = "call"
    /\ runs < MaxRuns
    /\ \E out \in GenerateAnalysis(provider_name, posts1, posts2, user1, user2,
                                   num_samples, environ, installed) :
          AnalysisEffect(out)
    /\ pc' = "in_call"
    /\ UNCHANGED <<envVars, argVars>>
    /\ UNCHANGED <<secrets, upstream, posts_limit, fetched, shown, report, trace>>

\* the call returns (or raises): its locals are gone, its result stays with the
\* caller; prev_run keeps the longest-pairs portion for comparison
Return ==
    /\ pc = "in_call"
    /\ prev_run' = [valid |-> sampled, longest |-> LongestPortion(sample_pairs, rand_idx)]
    /\ provider' = NoProvider
    /\ sampled' = FALSE
    /\ rand_idx' = <<>>
    /\ sample_pairs' = <<>>
    /\ pairs_text' = <<>>
    /\ pc' = "call"
    /\ UNCHANGED <<result, vendor_calls, gen_calls, runs>>
    /\ UNCHANGED <<envVars, argVars>>
    /\ UNCHANGED <<secrets, upstream, posts_limit, fetched, shown, report, trace>>

NextSampler == CallGenerateAnalysis \/ Return

SpecSampler == InitSampler /\ [][NextSampler]_vars

-----------------------------------------------------------------------------
(* Actions: main(), one request *)

Stage(name, ok) == [stage |-> name, ok |-> ok]

\* if not user1 or not user2: ... return; if user1 == user2: ... return
Validate ==
    /\ pc = "clicked"
    /\ IF user1 = "" \/ user2 = ""
       THEN /\ shown' = Append(shown, [kind |-> "error",
                                       text |-> <<"Please enter both usernames!">>,
                                       detail |-> <<>>])
            /\ pc' = "returned"
       ELSE IF user1 = user2
       THEN /\ shown' = Append(shown, [kind |-> "warning",
                                       text |-> <<"That's the same person!">>,
                                       detail |-> <<>>])
            /\ pc' = "returned"
       ELSE /\ shown' = shown
            /\ pc' = "fetch1"
    /\ UNCHANGED <<envVars, argVars, provVars, sampVars>>
    /\ UNCHANGED <<secrets, upstream, posts_limit, fetched, report, trace>>

\* Step 1: fetch_reddit_posts(user1, posts_limit); posts1 = df1['text'].tolist()
Fetch1 ==
    /\ pc = "fetch1"
    /\ \E out \in FetchUserPosts(secrets.client_id, secrets.client_secret,
                                 upstream[user1], posts_limit) :
          LET step == FetchStep(out)
              failed == step.exc # NoExc
          IN  /\ fetched' = [fetched EXCEPT ![1] = out]
              /\ posts1' = step.posts
              /\ trace' = Append(trace, Stage("fetch1", ~failed))
              /\ shown' = Append(shown,
                                 IF failed THEN FetchError(user1, step.exc)
                                 ELSE [kind |-> "success", text |-> <<"Fetched posts from u/", user1>>,
                                       detail |-> <<>>])
              /\ pc' = AfterStage(failed, "fetch2")
    /\ UNCHANGED <<envVars, provVars, sampVars>>
    /\ UNCHANGED <<provider_name, posts2, num_samples, user1, user2>>
    /\ UNCHANGED <<secrets, upstream, posts_limit, report>>

\* Step 2: fetch_reddit_posts(user2, posts_limit); posts2 = df2['text'].tolist()
Fetch2 ==
    /\ pc = "fetch2"
    /\ \E out \in FetchUserPosts(secrets.client_id, secrets.client_secret,
                                 upstream[user2], posts_limit) :
          LET step == FetchStep(out)
              failed == step.exc # NoExc
          IN  /\ fetched' = [fetched EXCEPT ![2] = out]
              /\ posts2' = step.posts
              /\ trace' = Append(trace, Stage("fetch2", ~failed))
              /\ shown' = Append(shown,
                                 IF failed THEN FetchError(user2, step.exc)
                                 ELSE [kind |-> "success", text |-> <<"Fetched posts from u/", user2>>,
                                       detail |-> <<>>])
              /\ pc' = AfterStage(failed, "analyze")
    /\ UNCHANGED <<envVars, provVars, sampVars>>
    /\ UNCHANGED <<provider_name, posts1, num_samples, user1, user2>>
    /\ UNCHANGED <<secrets, upstream, posts_limit, report>>

\* Step 3: report = generate_analysis(provider, posts1, posts2, user1, user2, sample_pairs)
Analyze ==
    /\ pc = "analyze"
    /\ \E out \in GenerateAnalysis(provider_name, posts1, posts2, user1, user2,
                                   num_samples, environ, installed) :
          LET failed == out.exc # NoExc
          IN  /\ AnalysisEffect(out)
              /\ trace' = Append(trace, Stage("analysis", ~failed))
              /\ shown' = IF failed THEN Append(shown, AnalysisError(out.exc)) ELSE shown
              /\ report' = IF failed THEN report ELSE out.value
              /\ pc' = AfterStage(failed, "display")
    /\ UNCHANGED <<envVars, argVars>>
    /\ UNCHANGED <<secrets, upstream, posts_limit, fetched>>

\* RESULTS DISPLAY: st.markdown(report) and the widgets after it
Display ==
    /\ pc = "display"
    /\ shown' = Append(shown, [kind |-> "report", text |-> <<report>>, detail |-> <<>>])
    /\ pc' = "done"
    /\ UNCHANGED <<envVars, argVars, provVars, sampVars>>
    /\ UNCHANGED <<secrets, upstream, posts_limit, fetched, report, trace>>

NextMain == Validate \/ Fetch1 \/ Fetch2 \/ Analyze \/ Display

SpecMain == InitMain /\ [][NextMain]_vars

\* the driver is the program's entry point
Init == InitMain

Next == NextMain

Spec == SpecMain


-----------------------------------------------------------------------------
(* Claims about generate_analysis (SpecSampler) *)

\* C1: for non-empty corpora and num_samples >= 2, the sample set built and
\* rendered has at most num_samples entries, and every pair has its first
\* element from posts1 and its second from posts2.
C1_SampleFromCorpora ==
    (sampled /\ posts1 # <<>> /\ posts2 # <<>> /\ num_samples >= 2) =>
        /\ Len(sample_pairs) <= num_samples
        /\ Len(pairs_text) <= num_samples
        /\ \A i \in DOMAIN sample_pairs :
              /\ sample_pairs[i][1] \in Range(posts1)
              /\ sample_pairs[i][2] \in Range(posts2)

\* a full sample over corpora that share no body
C1_Witness ==
    /\ sampled /\ num_samples >= 2
    /\ posts1 # <<>> /\ posts2 # <<>>
    /\ Range(posts1) \cap Range(posts2) = {}
    /\ Len(sample_pairs) = num_samples

\* C8: two calls on the same corpora and num_samples have the same
\* longest-pairs portion (the entries after the random portion), element for
\* element, whatever the two random draws were.
C8_LongestDeterministic ==
    (runs >= 2 /\ sampled /\ prev_run.valid) =>
        LongestPortion(sample_pairs, rand_idx) = prev_run.longest

\* two calls whose random portions differ
C8_Witness ==
    /\ runs = 2 /\ sampled /\ prev_run.valid
    /\ Len(prev_run.longest) = 2
    /\ \E i \in DOMAIN rand_idx : sample_pairs[i] \in Range(prev_run.longest)

\* C9: with an empty corpus the sampling step raises nothing and yields an
\* empty sample set, and the prompt has no Pair block.
C9_EmptyCorpus ==
    (pc = "in_call" /\ (posts1 = <<>> \/ posts2 = <<>>)) =>
        /\ sampled
        /\ sample_pairs = <<>>
        /\ pairs_text = <<>>

\* sample([], ["x"], 10)
C9_Witness ==
    /\ pc = "in_call" /\ sampled
    /\ posts1 = <<>> /\ posts2 = << <<"x">> >> /\ num_samples = 10
    /\ sample_pairs = <<>>

\* seq holds the pairs of k distinct positions of all_pairs, in non-increasing
\* combined length, and no pair left out is longer than one taken
TopRanked(seq, all_pairs) ==
    \E f \in Draws(Len(all_pairs), Len(seq)) :
        /\ \A i \in DOMAIN seq : seq[i] = all_pairs[f[i]]
        /\ \A i \in 1..(Len(seq) - 1) : CombinedLen(seq[i]) >= CombinedLen(seq[i + 1])
        /\ \A j \in DOMAIN all_pairs : \A i \in DOMAIN seq :
              (\A h \in DOMAIN seq : f[h] # j) => CombinedLen(all_pairs[j]) <= CombinedLen(seq[i])

\* C10: when the cross-product has at least floor(num_samples/2) pairs, the
\* sample set has exactly 2*floor(num_samples/2) entries (num_samples when
\* even, num_samples - 1 when odd): the first half from distinct positions of
\* the cross-product, the second half the top-ranked by combined length; the
\* prompt has one Pair block per entry, numbered 1..size.
C10_ExactSize ==
    LET all_pairs == AllPairs(posts1, posts2)
        k == num_samples \div 2
    IN  (sampled /\ Len(all_pairs) >= k) =>
            /\ Len(sample_pairs) = 2 * k
            /\ (num_samples % 2 = 0 => Len(sample_pairs) = num_samples)
            /\ (num_samples % 2 = 1 => Len(sample_pairs) = num_samples - 1)
            /\ Len(rand_idx) = k
            /\ \A i, j \in 1..k : i # j => rand_idx[i] # rand_idx[j]
            /\ \A i \in 1..k : sample_pairs[i] = all_pairs[rand_idx[i]]
            /\ TopRanked(LongestPortion(sample_pairs, rand_idx), all_pairs)
            /\ Len(pairs_text) = Len(sample_pairs)
            /\ \A i \in DOMAIN pairs_text : pairs_text[i].index = i

\* the 3 x 4 scenario with num_samples = 4: four entries, one pair in both halves
C10_Witness ==
    /\ sampled
    /\ posts1 = AlicePosts /\ posts2 = BobPosts /\ num_samples = 4
    /\ Len(sample_pairs) = 4 /\ Len(pairs_text) = 4
    /\ sample_pairs[1] = sample_pairs[3]


-----------------------------------------------------------------------------
(* Claims about the provider registry (SpecProvider) *)

NameKnown == Lower(provider_name) \in RegisteredNames

\* the backend each registered name stands for
BackendOf(key) ==
    CASE key = <<"g", "r", "o", "q">> -> "GroqProvider"
      [] key = <<"o", "p", "e", "n", "a", "i">> -> "OpenAIProvider"
      [] key = <<"a", "n", "t", "h", "r", "o", "p", "i", "c">> -> "AnthropicProvider"
      [] key = <<"g", "e", "m", "i", "n", "i">> -> "GeminiProvider"
      [] key = <<"c", "o", "h", "e", "r", "e">> -> "CohereProvider"
      [] OTHER -> "None"

\* the credential variable and the library of the class the name selects
SelectedEnvVar == EnvVarOf(BackendOf(Lower(provider_name)))
SelectedLib == LibOf(BackendOf(Lower(provider_name)))

UnknownProviderError == Exc("ValueError", <<"Unknown provider: ">> \o provider_name)

\* C2, as stated: get_provider succeeds exactly when the lower-cased name is
\* one of the five registered names, and then yields that backend's provider;
\* for every other name it fails with the unknown-provider error and returns
\* no instance.
C2_ResolvesIffRegistered ==
    (pc # "resolve") =>
        /\ (pc = "resolved") <=> NameKnown
        /\ (pc = "resolved") => provider.cls = BackendOf(Lower(provider_name))
        /\ ~NameKnown => (result.exc = UnknownProviderError /\ provider = NoProvider)

\* C2, amended: get_provider raises the unknown-provider error exactly when the
\* lower-cased name is not registered, and then returns no instance; for a
\* registered name it builds that backend's class, and returns its instance
\* unless the credential is set and the vendor library is missing, in which
\* case the constructor's ImportError is raised.
C2_UnknownIffUnregistered ==
    (pc # "resolve") =>
        /\ (pc = "failed" /\ result.exc = UnknownProviderError) <=> ~NameKnown
        /\ ~NameKnown => provider = NoProvider
        /\ NameKnown =>
              /\ (pc = "resolved") <=>
                    ~(Truthy(environ[SelectedEnvVar]) /\ SelectedLib \notin installed)
              /\ (pc = "resolved") => provider.cls = BackendOf(Lower(provider_name))
              /\ (pc = "failed") =>
                    (result.exc.type = "ImportError" /\ provider = NoProvider)

\* "not-a-real-provider" was resolved and refused
C2_Witness ==
    /\ pc = "failed"
    /\ Len(provider_name) = 19
    /\ result.exc = UnknownProviderError
    /\ provider = NoProvider

\* C3: for a known provider whose credential variable is absent, get_provider
\* returns an instance without a client, and every generate call on it fails
\* with "<variable> not set" without a request reaching the vendor.
C3_DisabledWhenNoCredential ==
    (pc # "resolve" /\ NameKnown /\ environ[SelectedEnvVar] = "None") =>
        /\ pc = "resolved"
        /\ provider.cls = BackendOf(Lower(provider_name))
        /\ provider.client = "None"
        /\ vendor_calls = 0
        /\ (gen_calls = 0 => result.exc = NoExc)
        /\ (gen_calls > 0 => result.exc = Exc("ValueError", <<SelectedEnvVar, " not set">>))

\* a second generate call on a Cohere provider built without COHERE_API_KEY
C3_Witness ==
    /\ pc = "resolved"
    /\ provider.cls = "CohereProvider"
    /\ environ["COHERE_API_KEY"] = "None"
    /\ gen_calls = 2
    /\ result.exc.type = "ValueError"

\* C4: for a known provider whose credential is set while its client library
\* cannot be imported, get_provider raises ImportError: no instance is
\* returned and generate is never called.
C4_DependencyErrorAtConstruction ==
    (pc # "resolve" /\ NameKnown /\ Truthy(environ[SelectedEnvVar])
        /\ SelectedLib \notin installed) =>
        /\ pc = "failed"
        /\ result.exc = Exc("ImportError", InstallMsg(BackendOf(Lower(provider_name))))
        /\ provider = NoProvider
        /\ gen_calls = 0
        /\ vendor_calls = 0

\* Gemini with GOOGLE_API_KEY set and google.generativeai missing
C4_Witness ==
    /\ pc = "failed"
    /\ Lower(provider_name) = <<"g", "e", "m", "i", "n", "i">>
    /\ Truthy(environ["GOOGLE_API_KEY"])
    /\ "google.generativeai" \notin installed
    /\ result.exc.type = "ImportError"


-----------------------------------------------------------------------------
(* Claims about main() and the corpus fetch (SpecMain) *)

StageOrder == <<"fetch1", "fetch2", "analysis">>

\* C5: the stages of one request start in the order fetch account1, fetch
\* account2, sample/compose/generate, each only after every earlier stage
\* succeeded: after a failed fetch of account1 there is no fetch of account2,
\* and after a failed fetch there is no sampling, no generate call, no report.
C5_StagesInOrder ==
    /\ Len(trace) <= Len(StageOrder)
    /\ \A i \in DOMAIN trace :
          /\ trace[i].stage = StageOrder[i]
          /\ (i > 1 => trace[i - 1].ok)
    /\ fetched[1].done <=> Len(trace) >= 1
    /\ fetched[2].done <=> Len(trace) >= 2
    /\ (sampled \/ runs > 0 \/ gen_calls > 0 \/ vendor_calls > 0 \/ provider # NoProvider)
          => (Len(trace) = 3 /\ trace[1].ok /\ trace[2].ok)
    /\ (report # "None" \/ pc \in {"display", "done"})
          => (Len(trace) = 3 /\ \A i \in 1..3 : trace[i].ok)
    /\ (\E i \in DOMAIN shown : shown[i].kind = "report") => report # "None"

\* the fetch of account2 failed after account1 was fetched: main returned
\* without sampling
C5_Witness ==
    /\ pc = "returned"
    /\ Len(trace) = 2
    /\ trace[1].ok /\ ~trace[2].ok
    /\ posts1 # <<>>
    /\ ~sampled /\ gen_calls = 0 /\ report = "None"

AnalysisFailed == Len(trace) = 3 /\ ~trace[3].ok

\* exceptions of the other failure kinds of the analysis stage
AnalysisFailureSamples ==
    { Exc("ValueError", <<"Unknown provider: ", "x">>),
      Exc("ValueError", <<"GROQ_API_KEY", " not set">>),
      Exc("ImportError", <<"Install groq: pip install groq">>),
      Exc("APIError", <<"429 rate limit exceeded">>) }

\* C6: a failure of the analysis stage reaches the caller distinguishable by
\* kind: what main() shows for it differs from what it shows for a failure of
\* another kind, and a failed generate call is shown with the vendor's message.
C6_FailuresDistinguishable ==
    AnalysisFailed =>
        /\ \A e \in AnalysisFailureSamples :
              e.type # result.exc.type => shown[Len(shown)] # AnalysisError(e)
        /\ result.exc.type = "APIError" => shown[Len(shown)].detail = result.exc.msg

CredentialsAbsent == ~Truthy(secrets.client_id) \/ ~Truthy(secrets.client_secret)

AccountOf(i) == upstream[IF i = 1 THEN user1 ELSE user2]

\* C7: fetch_user_posts raises when the account does not exist, the API is
\* unreachable or the credentials are absent, and returns an empty corpus
\* without error only for an existing account with no qualifying content.
C7_FetchFailureRaises ==
    \A i \in 1..2 :
        fetched[i].done =>
            /\ (AccountOf(i).status # "ok" \/ CredentialsAbsent) => fetched[i].exc # NoExc
            /\ (fetched[i].exc = NoExc /\ fetched[i].df.rows = <<>>) => AccountOf(i).status = "ok"


-----------------------------------------------------------------------------
(* Claims about the prompt and the ordering of the longest half (SpecSampler) *)

\* side is the rendering the prompt owes to body: the body itself up to 300
\* characters, else its first 300 characters and the ellipsis marker
RenderedAs(body, side) ==
    IF Len(body) <= 300 THEN side = body
    ELSE side = SubSeq(body, 1, 300) \o <<".", ".", ".">>

\* C11: in the composed prompt each side of each pair is the body itself when
\* the body has at most 300 characters, and its first 300 characters followed
\* by "..." when it is longer; the call leaves both corpora as they were, and
\* the pairs of the sample set still hold the whole bodies of the corpora.
C11_TruncationRule ==
    [][ /\ posts1' = posts1
        /\ posts2' = posts2
        /\ sampled' =>
              /\ Len(pairs_text') = Len(sample_pairs')
              /\ \A i \in DOMAIN sample_pairs' :
                    /\ sample_pairs'[i][1] \in Range(posts1)
                    /\ sample_pairs'[i][2] \in Range(posts2)
                    /\ RenderedAs(sample_pairs'[i][1], pairs_text'[i].side1)
                    /\ RenderedAs(sample_pairs'[i][2], pairs_text'[i].side2) ]_vars

\* a 301-character body rendered as 300 characters and the marker, next to a
\* 299-character body rendered whole, the pair itself still holding all 301
C11_Witness ==
    /\ sampled
    /\ posts1 = LongPosts1 /\ posts2 = LongPosts2
    /\ \E i \in DOMAIN sample_pairs :
          /\ Len(sample_pairs[i][1]) = 301
          /\ Len(pairs_text[i].side1) = 303
          /\ Len(sample_pairs[i][2]) = 299
          /\ pairs_text[i].side2 = sample_pairs[i][2]


\* position a of the cross-product ranks ahead of position b: a longer combined
\* length, or the same combined length and an earlier place in the enumeration
RanksAhead(all_pairs, a, b) ==
    \/ CombinedLen(all_pairs[a]) > CombinedLen(all_pairs[b])
    \/ /\ CombinedLen(all_pairs[a]) = CombinedLen(all_pairs[b])
       /\ a < b

\* seq lists, in rank order, positions of the cross-product that rank ahead of
\* every position left out
StableTop(seq, all_pairs) ==
    \E f \in Draws(Len(all_pairs), Len(seq)) :
        /\ \A i \in DOMAIN seq : seq[i] = all_pairs[f[i]]
        /\ \A i, j \in DOMAIN seq : i < j => RanksAhead(all_pairs, f[i], f[j])
        /\ \A j \in DOMAIN all_pairs : \A i \in DOMAIN seq :
              (\A h \in DOMAIN seq : f[h] # j) => RanksAhead(all_pairs, f[i], j)

\* C12: the longest-pairs portion is the first floor(num_samples/2) entries (all
\* of them when fewer exist) of the cross-product ordered by len(a) + len(b)
\* descending, and of two pairs of equal combined length the one enumerated
\* earlier (corpusA-major, corpusB-minor) comes earlier.
C12_StableLongest ==
    LET all_pairs == AllPairs(posts1, posts2)
        longest == LongestPortion(sample_pairs, rand_idx)
    IN  sampled =>
            /\ Len(longest) = Min(num_samples \div 2, Len(all_pairs))
            /\ StableTop(longest, all_pairs)

\* two different pairs of combined length 3 compete for the last place of the
\* portion, and the one enumerated earlier has it
C12_Witness ==
    LET all_pairs == AllPairs(posts1, posts2)
        longest == LongestPortion(sample_pairs, rand_idx)
    IN  /\ sampled
        /\ Len(longest) = 2
        /\ \E a, b \in DOMAIN all_pairs :
              /\ a < b
              /\ all_pairs[a] # all_pairs[b]
              /\ CombinedLen(all_pairs[a]) = CombinedLen(all_pairs[b])
              /\ longest[2] = all_pairs[a]
              /\ all_pairs[b] \notin Range(longest)


-----------------------------------------------------------------------------
(* Claim about the length filter of the fetch (SpecMain) *)

\* the texts of the items the two listing loops of fetch i went through
SeenTexts(i) ==
    LET acct == AccountOf(i)
        subs == Take(acct.submissions, posts_limit \div 2)
        coms == Take(acct.comments, posts_limit \div 2)
    IN  {[text |-> SubmissionText(subs[n]), type |-> "submission"] : n \in DOMAIN subs}
            \cup {[text |-> CommentText(coms[n]), type |-> "comment"] : n \in DOMAIN coms}

\* the texts and types of the rows of the corpus fetch i returned
RetainedTexts(i) ==
    {[text |-> fetched[i].df.rows[n].text, type |-> fetched[i].df.rows[n].type] :
        n \in DOMAIN fetched[i].df.rows}

\* C13: a fetch that succeeds retains every submission or comment whose
\* stripped body has 10 or more characters, and every item it retains is one
\* it went through and has a body of at least 10 characters.
C13_ThresholdTen ==
    \A i \in 1..2 :
        (fetched[i].done /\ fetched[i].exc = NoExc /\ AccountOf(i).status = "ok") =>
            /\ \A item \in SeenTexts(i) : Len(item.text) >= 10 => item \in RetainedTexts(i)
            /\ \A item \in RetainedTexts(i) : item \in SeenTexts(i) /\ Len(item.text) >= 10

====
